---- MODULE Spec2Model ----
(***************************************************************************)
(* A model of the EyeDropper class of @ltcode/eyedropper                   *)
(* (src/src/EyeDropper.js): the engine object's fields, the part of the    *)
(* document it touches, the animation-frame queue and the promises it      *)
(* hands out.  Every handler of the class is an operator from a "world"    *)
(* record to a world record, translated statement by statement; an action  *)
(* is one browser task (an API call, one dispatched event, one frame, one  *)
(* image load outcome) together with the microtasks it triggers.           *)
(***************************************************************************)
EXTENDS Integers, Sequences, FiniteSets, TLC

VARIABLES
    eng,        \* the fields of the EyeDropper instance (this.*)
    dom,        \* document state the class reads and writes
    raf,        \* pending requestAnimationFrame callbacks: the captured events
    prom,       \* promises created by open(): state, and what was observed of
                \* the session: onPick and resolve calls, and (for the latest
                \* promise) the options in effect when open() was called
    url,        \* openFromImageUrl calls: image load, outer promise, nodes
    hist,       \* what the last task did (observation only, reset per task)
    readable,   \* per canvas: getImageData succeeds (canvas not tainted)
    browser,    \* window and document exist
    call        \* a call of one of the class's pure functions: name, arguments, result

vars == <<eng, dom, raf, prom, url, hist, readable, browser, call>>

-----------------------------------------------------------------------------
(* Bounds of the model *)

MaxOpens == 2
MaxUrlCalls == 1
MaxPickCalls == 2

-----------------------------------------------------------------------------
(* Values *)

None == <<>>
Some(v) == <<v>>
The(o) == o[1]

NullCanvas == <<>>
CanvasA == <<"user", 1>>
CanvasB == <<"user", 2>>
Gl == <<"gl", 1>>
TempCanvas(k) == <<"temp", k>>

UserCanvases == {CanvasA, CanvasB}
TempCanvases == {TempCanvas(k) : k \in 1..MaxUrlCalls}
Canvases2d == UserCanvases \cup TempCanvases
AllCanvases == Canvases2d \cup {Gl}

EventTypes == {"mousemove", "mouseleave", "mouseenter", "click"}

\* canvas.width / canvas.height: the buffer size
CanvasWidth(c) == IF c = CanvasA THEN 1 ELSE IF c = CanvasB THEN 2 ELSE 1
CanvasHeight(c) == IF c = CanvasA THEN 2 ELSE 1

\* canvas.getBoundingClientRect(): CanvasA is shown at its buffer size, CanvasB
\* is shown wider than its buffer (3 CSS pixels for 2 buffer pixels)
Rect(c) ==
    IF c = CanvasA THEN [left |-> 0, top |-> 1, width |-> 1, height |-> 2]
    ELSE IF c = CanvasB THEN [left |-> 1, top |-> 0, width |-> 3, height |-> 1]
    ELSE [left |-> 0, top |-> 0, width |-> 1, height |-> 1]

\* the pointer events a canvas can receive: positions inside its rect
PointerEvents(c) ==
    [clientX : Rect(c).left .. (Rect(c).left + Rect(c).width - 1),
     clientY : Rect(c).top .. (Rect(c).top + Rect(c).height - 1)]

InBuffer(c, x, y) ==
    /\ 0 <= x /\ x < CanvasWidth(c)
    /\ 0 <= y /\ y < CanvasHeight(c)

\* the picture on each canvas; getImageData outside the buffer yields
\* transparent black
PixelData(c, x, y) ==
    IF ~InBuffer(c, x, y) THEN <<0, 0, 0>>
    ELSE IF c = CanvasA THEN (IF y = 0 THEN <<255, 0, 0>> ELSE <<0, 128, 255>>)
    ELSE IF c = CanvasB THEN (IF x = 0 THEN <<18, 52, 86>> ELSE <<255, 255, 255>>)
    ELSE <<10, 171, 9>>

-----------------------------------------------------------------------------
(* _rgbToHex *)

HexDigits == <<"0", "1", "2", "3", "4", "5", "6", "7",
               "8", "9", "a", "b", "c", "d", "e", "f">>

\* Number.prototype.toString(16) of n >= 0, as a sequence of digit characters
RECURSIVE ToString16(_)
ToString16(n) ==
    IF n < 16 THEN <<HexDigits[n + 1]>>
    ELSE Append(ToString16(n \div 16), HexDigits[(n % 16) + 1])

Shl(v, k) == v * (2 ^ k)

MutRgbToHex_NoPad(r, g, b) ==
    <<"#">> \o ToString16(Shl(r, 16) + Shl(g, 8) + b)

rgbToHex(r, g, b) ==
    <<"#">> \o Tail(ToString16(Shl(1, 24) + Shl(r, 16) + Shl(g, 8) + b))

-----------------------------------------------------------------------------
(* Options: objects as functions from the keys they have to values *)

EmptyObj == [k \in {} |-> TRUE]
Has(o, k) == k \in DOMAIN o
\* { ...a, ...b }
Spread(a, b) == [k \in (DOMAIN a) \cup (DOMAIN b) |-> IF k \in DOMAIN b THEN b[k] ELSE a[k]]

IsFunction(o, k) == Has(o, k) /\ o[k] \in {"fn", "throws"}

\* options given to the constructor: no callbacks, or an onPick that throws
ConstructorOptions == { EmptyObj, [onPick |-> "throws"] }

\* options given to open() and openFromImageUrl(): none, or a well behaved
\* onPick with a custom renderPreview
CallOptions == { EmptyObj, [onPick |-> "fn", renderPreview |-> "fn", onMove |-> "fn"] }

-----------------------------------------------------------------------------
(* Number arithmetic: JavaScript numbers are IEEE 754 doubles.  A double is *)
(* a sign (0 for zero), a mantissa of 53 bits (most significant first, the  *)
(* first one set) and the exponent ex of its first bit: its value is        *)
(* sign * mantissa * 2^(ex - 52).  Every operation rounds its exact result  *)
(* to the nearest double, ties to even.                                     *)

MantissaBits == 53

Zeros(n) == [i \in 1..n |-> 0]
Front(b) == SubSeq(b, 1, Len(b) - 1)
Last(b) == b[Len(b)]

\* the binary digits of n >= 0
RECURSIVE IntBits(_)
IntBits(n) == IF n < 2 THEN <<n>> ELSE Append(IntBits(n \div 2), n % 2)

\* b + 1, one digit longer when every digit of b is set
Inc(b) ==
    LET zeros == {i \in 1..Len(b) : b[i] = 0} IN
    IF zeros = {} THEN <<1>> \o Zeros(Len(b))
    ELSE LET k == CHOOSE i \in zeros : \A j \in zeros : j <= i
         IN [i \in 1..Len(b) |-> IF i < k THEN b[i] ELSE IF i = k THEN 1 ELSE 0]

DoubleZero == [sign |-> 0, m |-> Zeros(MantissaBits), ex |-> 0]

\* bits: the exact digits of a magnitude, the first one set and of weight
\* 2^ex; sticky: the magnitude has further non-zero digits after bits
RoundToDouble(sign, bits, ex, sticky) ==
    IF Len(bits) <= MantissaBits
    THEN [sign |-> sign, m |-> bits \o Zeros(MantissaBits - Len(bits)), ex |-> ex]
    ELSE
        LET keep == SubSeq(bits, 1, MantissaBits)
            guard == bits[MantissaBits + 1]
            rest == sticky \/ \E i \in (MantissaBits + 2)..Len(bits) : bits[i] = 1
            up == guard = 1 /\ (rest \/ keep[MantissaBits] = 1)
            inc == Inc(keep)
        IN IF ~up THEN [sign |-> sign, m |-> keep, ex |-> ex]
           ELSE IF Len(inc) > MantissaBits
                THEN [sign |-> sign, m |-> Front(inc), ex |-> ex + 1]
                ELSE [sign |-> sign, m |-> inc, ex |-> ex]

\* an integer n >= 0 as a double
FromInt(n) ==
    IF n = 0 THEN DoubleZero
    ELSE RoundToDouble(1, IntBits(n), Len(IntBits(n)) - 1, FALSE)

\* the first n digits of num / den, where den <= num < 2 * den
\* by long division: before its i-th step the dividend is RemAfter(i - 1)
RECURSIVE Pow2Mod(_, _)
Pow2Mod(k, den) ==
    IF k = 0 THEN 1 % den
    ELSE IF k % 2 = 0 THEN (Pow2Mod(k \div 2, den) * Pow2Mod(k \div 2, den)) % den
    ELSE (2 * Pow2Mod(k - 1, den)) % den

RemAfter(num, den, n) ==
    IF n = 0 THEN num ELSE 2 * ((num * Pow2Mod(n - 1, den)) % den)

QuotBits(num, den, n) == [i \in 1..n |-> RemAfter(num, den, i - 1) \div den]

\* c / x for integers c >= 0, x > 0
DoubleDiv(c, x) ==
    IF c = 0 THEN DoubleZero
    ELSE
        LET e0 == Len(IntBits(c)) - Len(IntBits(x))
            num0 == IF e0 < 0 THEN c * 2^(0 - e0) ELSE c
            den == IF e0 > 0 THEN x * 2^e0 ELSE x
            e == IF num0 >= den THEN e0 ELSE e0 - 1
            num == IF num0 >= den THEN num0 ELSE 2 * num0
        IN RoundToDouble(1, QuotBits(num, den, MantissaBits + 1), e,
                         RemAfter(num, den, MantissaBits + 1) # 0)

\* the first position after j where a and b differ (same = FALSE) or agree
\* (same = TRUE), 0 when there is none
NextWhere(a, b, j, same) ==
    LET S == {k \in (j + 1)..Len(a) : (a[k] = b[k]) = same}
    IN IF S = {} THEN 0 ELSE CHOOSE k \in S : \A l \in S : k <= l

\* a + b for digit sequences of one length that can hold the sum: the carry
\* into a digit comes from the nearest lower digit where a and b agree
AddBits(a, b) ==
    [j \in 1..Len(a) |->
        LET k == NextWhere(a, b, j, TRUE)
        IN (a[j] + b[j] + (IF k = 0 THEN 0 ELSE a[k])) % 2]

\* n * b on width digits, by shift and add
RECURSIVE Times(_, _, _)
Times(b, n, width) ==
    IF n = 0 THEN Zeros(width)
    ELSE LET twice == Tail(Times(b, n \div 2, width)) \o <<0>>
         IN IF n % 2 = 1
            THEN AddBits(twice, Zeros(width - Len(b)) \o b)
            ELSE twice

LeadingOne(b) == CHOOSE i \in 1..Len(b) : b[i] = 1 /\ \A j \in 1..(i - 1) : b[j] = 0

\* the digits of n * b from its first one, for n > 0 and b with a digit set
MulBits(b, n) ==
    LET p == Times(b, n, Len(b) + Len(IntBits(n)))
    IN SubSeq(p, LeadingOne(p), Len(p))

\* n * d for an integer n >= 0 and a double d
DoubleMul(n, d) ==
    IF n = 0 \/ d.sign = 0 THEN DoubleZero
    ELSE LET p == MulBits(d.m, n)
         IN RoundToDouble(d.sign, p, d.ex + Len(p) - MantissaBits, FALSE)

BitsLess(a, b) ==
    \E i \in 1..Len(a) : a[i] < b[i] /\ \A j \in 1..(i - 1) : a[j] = b[j]

\* a < b for doubles a, b >= 0
DoubleLess(a, b) ==
    IF b.sign = 0 THEN FALSE
    ELSE IF a.sign = 0 THEN TRUE
    ELSE a.ex < b.ex \/ (a.ex = b.ex /\ BitsLess(a.m, b.m))

MathMax(a, b) == IF DoubleLess(a, b) THEN b ELSE a
MathMin(a, b) == IF DoubleLess(b, a) THEN b ELSE a

\* the digits of d from weight 2^hi down to weight 2^lo
Align(d, hi, lo) ==
    Zeros(hi - d.ex) \o d.m \o Zeros(d.ex - (MantissaBits - 1) - lo)

\* the digits of a - b >= 0: the borrow into a digit comes from the nearest
\* lower digit where a and b differ
SubBits(a, b) ==
    [j \in 1..Len(a) |->
        LET k == NextWhere(a, b, j, FALSE)
        IN (a[j] - b[j] - (IF k = 0 THEN 0 ELSE b[k]) + 2) % 2]

\* a - b before rounding, for doubles a, b > 0 with a # b: its sign, its
\* digits from the first one set, and the weight of that digit
ExactDifference(a, b) ==
    LET hi == IF a.ex > b.ex THEN a.ex ELSE b.ex
        lo == (IF a.ex < b.ex THEN a.ex ELSE b.ex) - (MantissaBits - 1)
        neg == DoubleLess(a, b)
        big == Align(IF neg THEN b ELSE a, hi, lo)
        small == Align(IF neg THEN a ELSE b, hi, lo)
        diff == SubBits(big, small)
        k == LeadingOne(diff)
    IN [sign |-> IF neg THEN 0 - 1 ELSE 1,
        bits |-> SubSeq(diff, k, Len(diff)),
        ex |-> hi - (k - 1)]

\* a - b for doubles a, b >= 0
DoubleSub(a, b) ==
    IF b.sign = 0 THEN a
    ELSE IF a.sign = 0 THEN [b EXCEPT !.sign = 0 - 1]
    ELSE IF a = b THEN DoubleZero
    ELSE LET d == ExactDifference(a, b)
         IN RoundToDouble(d.sign, d.bits, d.ex, FALSE)

\* d * 0.5
DoubleHalf(d) == IF d.sign = 0 THEN d ELSE [d EXCEPT !.ex = @ - 1]

-----------------------------------------------------------------------------
(* drawImageToCanvas (static) *)

IsCover(options) == Has(options, "cover") /\ options.cover

MutDrawImageToCanvas_SwapMinMax(img, canvas, options) ==
    IF img = None \/ canvas = None
          \/ The(img).naturalWidth = 0 \/ The(img).naturalHeight = 0
    THEN [cleared |-> FALSE, drawn |-> None]
    ELSE
        LET rw == DoubleDiv(The(canvas).width, The(img).naturalWidth)
            rh == DoubleDiv(The(canvas).height, The(img).naturalHeight)
            ratio == IF IsCover(options) THEN MathMin(rw, rh) ELSE MathMax(rw, rh)
            dw == DoubleMul(The(img).naturalWidth, ratio)
            dh == DoubleMul(The(img).naturalHeight, ratio)
        IN [cleared |-> TRUE,
            drawn |-> Some([dx |-> DoubleHalf(DoubleSub(FromInt(The(canvas).width), dw)),
                            dy |-> DoubleHalf(DoubleSub(FromInt(The(canvas).height), dh)),
                            dw |-> dw, dh |-> dh])]

\* lines 35-63: what the call does to the canvas: whether clearRect ran and
\* the rectangle given to drawImage
drawImageToCanvas(img, canvas, options) ==
    IF img = None \/ canvas = None
          \/ The(img).naturalWidth = 0 \/ The(img).naturalHeight = 0
    THEN [cleared |-> FALSE, drawn |-> None]
    ELSE
        LET canvasW == The(canvas).width
            canvasH == The(canvas).height
            imgW == The(img).naturalWidth
            imgH == The(img).naturalHeight
            ratio == IF IsCover(options)
                     THEN MathMax(DoubleDiv(canvasW, imgW), DoubleDiv(canvasH, imgH))
                     ELSE MathMin(DoubleDiv(canvasW, imgW), DoubleDiv(canvasH, imgH))
            dw == DoubleMul(imgW, ratio)
            dh == DoubleMul(imgH, ratio)
            dx == DoubleHalf(DoubleSub(FromInt(canvasW), dw))
            dy == DoubleHalf(DoubleSub(FromInt(canvasH), dh))
        IN [cleared |-> TRUE,
            drawn |-> Some([dx |-> dx, dy |-> dy, dw |-> dw, dh |-> dh])]

-----------------------------------------------------------------------------
(* The state as one record, for the handlers *)

World == [eng |-> eng, dom |-> dom, raf |-> raf, prom |-> prom, url |-> url,
          hist |-> hist, readable |-> readable, browser |-> browser]

Commit(w) ==
    /\ eng' = w.eng
    /\ dom' = w.dom
    /\ raf' = w.raf
    /\ prom' = w.prom
    /\ url' = w.url
    /\ hist' = w.hist
    /\ readable' = w.readable
    /\ browser' = w.browser
    /\ call' = call

\* the trace of the running task
Log(w, entry) == [w EXCEPT !.hist.trace = Append(@, entry)]
Ev(name) == [ev |-> name]

NoListeners == [c \in AllCanvases |-> [t \in EventTypes |-> {}]]

\* the properties of the overlay elements before _createUI styles them
BlankOverlay ==
    [magnifierDisplay |-> "",
     previewDisplay |-> "",
     magnifierPos |-> None,
     previewPos |-> None,
     swatch |-> None,             \* _previewColor.style.backgroundColor
     text |-> None,               \* _colorDisplay.textContent
     previewContent |-> None,     \* what is mounted in the preview element
     magCanvasSize |-> None,
     smoothing |-> None,
     drawn |-> None]              \* last drawImage into the magnifier canvas

InitEng(opts) ==
    [options |-> opts,
     resolve |-> 0,
     canvas |-> NullCanvas,
     container |-> 0,
     magnifier |-> 0,
     crosshair |-> 0,
     preview |-> 0,
     previewColor |-> 0,
     colorDisplay |-> 0,
     lastPixel |-> None,
     currentPosition |-> None,
     canvasCache |-> None,
     magnifierCache |-> None,
     magCanvas |-> 0,
     magCtx |-> 0,
     mouseThrottle |-> FALSE,
     onMouseMoveBound |-> 0,
     onMouseLeaveBound |-> 0,
     onMouseEnterBound |-> 0,
     onClickBound |-> 0]

InitDom ==
    [body |-> {},                       \* nodes appended to document.body
     head |-> {},                       \* nodes appended to document.head
     listeners |-> NoListeners,         \* canvas -> event type -> handlers
     cursor |-> [c \in AllCanvases |-> ""],
     overlay |-> BlankOverlay]

InitHist == [op |-> "init", outcome |-> "none", promise |-> 0, exc |-> "none", trace |-> <<>>]

\* no pure function is being called
NoCall == [fn |-> "none", args |-> <<>>, result |-> None]

Constructed ==
    /\ browser \in BOOLEAN
    /\ eng \in {InitEng(o) : o \in ConstructorOptions}
    /\ dom = InitDom
    /\ raf = <<>>
    /\ prom = [p \in 1..MaxOpens |->
                 [state |-> "unused", picks |-> 0, resolves |-> 0, options |-> EmptyObj]]
    /\ url = [k \in 1..MaxUrlCalls |->
                 [state |-> "unused", session |-> 0, options |-> EmptyObj, error |-> "none"]]
    /\ hist = InitHist
    /\ readable = [c \in Canvases2d |-> TRUE]

Init == Constructed /\ call = NoCall

-----------------------------------------------------------------------------
(* Program constants *)

MagDefaultW == 80
MagDefaultH == 80
PreviewGap == 8
DefaultSize == 20
DefaultZoom == 4

InitialText == <<"#", "0", "0", "0", "0", "0", "0">>

-----------------------------------------------------------------------------
(* Exceptions: hist.exc holds the exception in flight in the running task *)

Threw(w) == w.hist.exc # "none"
Throw(w, name) == [Log(w, [ev |-> "throw", name |-> name]) EXCEPT !.hist.exc = name]
Caught(w) == [w EXCEPT !.hist.exc = "none"]

\* a new task starts: the observation record is reset
Begin(w, op) ==
    [w EXCEPT !.hist = [op |-> op, outcome |-> "none", promise |-> 0,
                        exc |-> "none", trace |-> <<>>]]

ContainerNode(n) == <<"container", n>>
LoadingNode(k) == <<"loading", k>>
StyleNode == <<"style", 0>>

-----------------------------------------------------------------------------
(* _removeUI *)

\* the listener function the engine holds for each event type
BoundOf(e, t) ==
    CASE t = "mousemove" -> e.onMouseMoveBound
      [] t = "mouseleave" -> e.onMouseLeaveBound
      [] t = "mouseenter" -> e.onMouseEnterBound
      [] t = "click" -> e.onClickBound

\* lines 421-423: detach the container when it is attached
DetachContainer(w) ==
    IF w.eng.container # 0 /\ ContainerNode(w.eng.container) \in w.dom.body
    THEN Log([w EXCEPT !.dom.body = @ \ {ContainerNode(w.eng.container)},
                       !.dom.overlay = BlankOverlay],
             Ev("detachContainer"))
    ELSE w

MutRemoveListeners_KeepCursor(w) ==
    IF w.eng.canvas # NullCanvas
    THEN Log([w EXCEPT !.dom.listeners[w.eng.canvas] =
                           [t \in EventTypes |-> @[t] \ {BoundOf(w.eng, t)}]],
             Ev("removeListeners"))
    ELSE w

\* lines 424-431: restore the cursor and remove the four listeners
RemoveListeners(w) ==
    IF w.eng.canvas # NullCanvas
    THEN Log([w EXCEPT !.dom.cursor[w.eng.canvas] = "default",
                       !.dom.listeners[w.eng.canvas] =
                           [t \in EventTypes |-> @[t] \ {BoundOf(w.eng, t)}]],
             Ev("removeListeners"))
    ELSE w

\* lines 432-445: clear the references
ClearReferences(w) ==
    [w EXCEPT !.eng.container = 0,
              !.eng.canvas = NullCanvas,
              !.eng.magnifier = 0,
              !.eng.crosshair = 0,
              !.eng.preview = 0,
              !.eng.lastPixel = None,
              !.eng.currentPosition = None,
              !.eng.canvasCache = None,
              !.eng.magnifierCache = None,
              !.eng.magCanvas = 0,
              !.eng.magCtx = 0,
              !.eng.mouseThrottle = FALSE]

removeUI(w) == ClearReferences(RemoveListeners(DetachContainer(w)))

-----------------------------------------------------------------------------
(* _createUI *)

\* what open() can be given: a canvas element, a 2D context, anything else
Target(kind, c) == [kind |-> kind, canvas |-> c]
InvalidTarget == Target("invalid", NullCanvas)
Targets ==
    {Target("canvas", c) : c \in UserCanvases \cup {Gl}}
        \cup {Target("context", CanvasB), InvalidTarget}

\* lines 98-106
DiscoverCanvas(target) ==
    IF target.kind = "canvas" THEN Some(target.canvas)
    ELSE IF target.kind = "context" THEN Some(target.canvas)
    ELSE None

\* canvas.getContext('2d') is null on a canvas that has another context type
GetContext2d(c) == IF c = Gl THEN None ELSE Some(c)

\* lines 115-235, for session n on canvas c
BuildOverlay(w, n, c) ==
    [w EXCEPT
        !.eng.container = n,
        !.dom.body = @ \cup {ContainerNode(n)},
        !.eng.magnifier = n,
        !.eng.canvasCache =
            Some([ctx |-> c,
                  width |-> CanvasWidth(c),
                  height |-> CanvasHeight(c),
                  scaleX |-> <<CanvasWidth(c), Rect(c).width>>,
                  scaleY |-> <<CanvasHeight(c), Rect(c).height>>,
                  magW |-> MagDefaultW,
                  magH |-> MagDefaultH]),
        !.eng.crosshair = n,
        !.eng.preview = n,
        !.eng.previewColor = n,
        !.eng.colorDisplay = n,
        !.dom.overlay = [BlankOverlay EXCEPT
                            !.magnifierDisplay = "none",
                            !.previewDisplay = "none",
                            !.text = Some(InitialText),
                            !.previewContent = Some([kind |-> "children"])],
        !.eng.lastPixel = None,
        !.dom.listeners[c] = [t \in EventTypes |-> @[t] \cup {n}],
        !.eng.onMouseMoveBound = n,
        !.eng.onMouseLeaveBound = n,
        !.eng.onMouseEnterBound = n,
        !.eng.onClickBound = n]

MutCreateUI_NoTeardown(w, target) ==
    LET found == DiscoverCanvas(target) IN
    IF found = None
    THEN Throw(w, "InvalidTarget")
    ELSE LET w2 == [w EXCEPT !.eng.canvas = The(found)] IN
         IF GetContext2d(The(found)) = None
         THEN Throw(w2, "NoContext")
         ELSE BuildOverlay(w2, w.eng.resolve, The(found))

createUI(w, target) ==
    LET w1 == removeUI(w)
        found == DiscoverCanvas(target)
    IN
    IF found = None
    THEN Throw(w1, "InvalidTarget")
    ELSE LET w2 == [w1 EXCEPT !.eng.canvas = The(found)] IN
         IF GetContext2d(The(found)) = None
         THEN Throw(w2, "NoContext")
         ELSE BuildOverlay(w2, w.eng.resolve, The(found))

-----------------------------------------------------------------------------
(* open *)

NewPromise(w) == CHOOSE p \in 1..MaxOpens :
                    /\ w.prom[p].state = "unused"
                    /\ \A q \in 1..(p - 1) : w.prom[q].state # "unused"
CanOpen(w) == \E p \in 1..MaxOpens : w.prom[p].state = "unused"

\* lines 83-93.  The executor of new Promise runs synchronously; an exception
\* it throws rejects the promise instead of reaching the caller.
open(w0, target, options) ==
    LET w == Log(w0, [ev |-> "open", options |-> options]) IN
    IF ~w.browser
    THEN [Throw(w, "NotBrowser") EXCEPT !.hist.outcome = "thrown"]
    ELSE
        LET p == NewPromise(w)
            merged == Spread(w.eng.options, options)
            w1 == [w EXCEPT !.eng.options = merged,
                            !.prom = [q \in 1..MaxOpens |->
                                        IF q = p
                                        THEN [@[q] EXCEPT !.state = "pending",
                                                          !.options = merged]
                                        ELSE [@[q] EXCEPT !.options = EmptyObj]],
                            !.eng.resolve = p,
                            !.hist.outcome = "promise",
                            !.hist.promise = p]
            w2 == createUI(w1, target)
        IN
        IF Threw(w2)
        THEN [Caught(w2) EXCEPT !.prom[p].state = "rejected"]
        ELSE w2

-----------------------------------------------------------------------------
(* Pointer handlers *)

\* Math.floor(a / b) for b > 0
FloorDiv(a, b) == a \div b

\* ctx.getImageData(x, y, 1, 1): throws on a canvas that is not readable
CanRead(w, c) == c \in Canvases2d /\ w.readable[c]

\* lines 239-247: the frame callback captures the event of the call that
\* scheduled it
throttledMouseMove(w, e) ==
    LET w1 == Log(w, [ev |-> "mousemove", event |-> e]) IN
    IF ~w1.eng.mouseThrottle
    THEN [w1 EXCEPT !.eng.mouseThrottle = TRUE, !.raf = Append(@, e)]
    ELSE w1

\* lines 249-261
onMouseEnter(w, e) ==
    [w EXCEPT !.dom.cursor[w.eng.canvas] = "none",
              !.dom.overlay.magnifierDisplay = "block",
              !.dom.overlay.previewDisplay = "flex"]

\* lines 374-377: size and zoom as the given options state them
magnifierSettings(options) ==
    LET magOpt == IF Has(options, "magnifier") THEN options.magnifier ELSE EmptyObj
    IN [size |-> IF Has(magOpt, "size") /\ magOpt.size # 0
                 THEN magOpt.size ELSE DefaultSize,
        zoom |-> IF Has(magOpt, "zoom") /\ magOpt.zoom # 0
                 THEN magOpt.zoom ELSE DefaultZoom]

MutDrawMagnifier_NoZoom(w, x, y) ==
    LET cache == IF w.eng.magnifierCache = None
                 THEN magnifierSettings(w.eng.options)
                 ELSE The(w.eng.magnifierCache)
        size == cache.size
        w1 == [w EXCEPT
                  !.eng.magnifierCache = Some(cache),
                  !.eng.magCanvas = w.eng.magnifier,
                  !.dom.overlay.magCanvasSize = Some([width |-> size, height |-> size]),
                  !.eng.magCtx = w.eng.magnifier,
                  !.dom.overlay.smoothing = Some(FALSE),
                  !.dom.overlay.drawn =
                      Some([sx2 |-> 2 * x - size, sy2 |-> 2 * y - size,
                            sw |-> size, sh |-> size,
                            dw |-> size, dh |-> size])]
    IN Log(w1, [ev |-> "drawMagnifier", x |-> x, y |-> y])

\* lines 371-410
drawMagnifier(w, x, y) ==
    LET cache == IF w.eng.magnifierCache = None
                 THEN magnifierSettings(w.eng.options)
                 ELSE The(w.eng.magnifierCache)
        size == cache.size
        zoom == cache.zoom
        newWidth == size * zoom
        newHeight == size * zoom
        newSize == Some([width |-> newWidth, height |-> newHeight])
        \* lines 391-395: assigning width or height resets the state of a
        \* context the canvas already has, image smoothing included
        resized == w.dom.overlay.magCanvasSize # newSize
        afterResize == IF resized /\ w.eng.magCtx # 0
                       THEN Some(TRUE)
                       ELSE w.dom.overlay.smoothing
        w1 == [w EXCEPT
                  !.eng.magnifierCache = Some(cache),
                  !.eng.magCanvas = w.eng.magnifier,
                  !.dom.overlay.magCanvasSize = newSize,
                  !.eng.magCtx = w.eng.magnifier,
                  \* lines 398-401: smoothing is switched off when the context
                  \* is first taken
                  !.dom.overlay.smoothing =
                      IF w.eng.magCtx = 0 THEN Some(FALSE) ELSE afterResize,
                  \* twice the source origin, so that size / 2 stays an integer
                  !.dom.overlay.drawn =
                      Some([sx2 |-> 2 * x - size, sy2 |-> 2 * y - size,
                            sw |-> size, sh |-> size,
                            dw |-> newWidth, dh |-> newHeight])]
    IN Log(w1, [ev |-> "drawMagnifier", x |-> x, y |-> y])

\* lines 281-305
updateMagnifier(w, x, y, e, rgb, hex) ==
    LET cc == The(w.eng.canvasCache)
        w1 == [w EXCEPT !.dom.overlay.magnifierPos =
                           Some([left2 |-> 2 * e.clientX - cc.magW,
                                 top2 |-> 2 * e.clientY - cc.magH])]
        w2 == drawMagnifier(w1, x, y)
    IN [w2 EXCEPT
           !.dom.overlay.previewPos =
               Some([centerX |-> e.clientX,
                     top2 |-> 2 * e.clientY + cc.magH + 2 * PreviewGap]),
           !.eng.lastPixel =
               Some([x |-> x, y |-> y, clientX |-> e.clientX, clientY |-> e.clientY,
                     hex |-> hex, rgb |-> rgb])]

\* lines 263-279
onMouseMove(w, e) ==
    IF w.eng.canvas = NullCanvas
    THEN Throw(w, "TypeError")
    ELSE
    LET rect == Rect(w.eng.canvas)
        x == e.clientX - rect.left
        y == e.clientY - rect.top
    IN
    IF w.eng.canvasCache = None
    THEN Throw(w, "TypeError")
    ELSE
    LET ctx == The(w.eng.canvasCache).ctx IN
    IF ~CanRead(w, ctx)
    THEN Throw(Log(w, [ev |-> "getImageData", x |-> x, y |-> y]), "SecurityError")
    ELSE
    LET rgb == PixelData(ctx, x, y)
        hexColor == rgbToHex(rgb[1], rgb[2], rgb[3])
        w1 == Log(w, [ev |-> "getImageData", x |-> x, y |-> y])
        w2 == [w1 EXCEPT !.dom.overlay.swatch = Some(rgb),
                         !.dom.overlay.text = Some(hexColor)]
    IN updateMagnifier(w2, x, y, e, rgb, hexColor)

MutOnMouseLeave_AlwaysHide(w) ==
    [w EXCEPT !.dom.cursor[w.eng.canvas] = "default",
              !.dom.overlay.magnifierDisplay = "none",
              !.dom.overlay.previewDisplay = "none"]

\* lines 307-337
onMouseLeave(w) ==
    IF w.eng.lastPixel # None /\ w.eng.canvasCache # None
    THEN
        LET lp == The(w.eng.lastPixel)
            cc == The(w.eng.canvasCache)
            w1 == [w EXCEPT !.dom.overlay.magnifierPos =
                               Some([left2 |-> 2 * lp.clientX - cc.magW,
                                     top2 |-> 2 * lp.clientY - cc.magH])]
            w2 == drawMagnifier(w1, lp.x, lp.y)
            custom == IsFunction(w.eng.options, "renderPreview")
            w3 == IF custom THEN Log(w2, [ev |-> "renderPreview", arg |-> lp]) ELSE w2
        IN [w3 EXCEPT
               !.dom.overlay.previewContent =
                   Some([kind |-> IF custom THEN "custom" ELSE "html", sample |-> lp]),
               !.dom.overlay.previewPos =
                   Some([centerX |-> lp.clientX,
                         top2 |-> 2 * lp.clientY + cc.magH + 2 * PreviewGap])]
    ELSE
        [w EXCEPT !.dom.cursor[w.eng.canvas] = "default",
                  !.dom.overlay.magnifierDisplay = "none",
                  !.dom.overlay.previewDisplay = "none"]

-----------------------------------------------------------------------------
(* _onClick *)

\* this._resolve(value): settles the promise of the latest open() if pending
resolve(w, value) ==
    LET p == w.eng.resolve
        w1 == Log(w, [ev |-> "resolve", promise |-> p, value |-> value])
    IN [w1 EXCEPT !.prom[p].resolves = @ + 1,
                  !.prom[p].state = IF @ = "pending" THEN "fulfilled" ELSE @]

\* lines 343-345 and 363-365: options.onPick(arg), when it is a function
callOnPick(w, arg) ==
    IF IsFunction(w.eng.options, "onPick")
    THEN LET w1 == [Log(w, [ev |-> "onPick", arg |-> arg, fn |-> w.eng.options.onPick])
                       EXCEPT !.prom[w.eng.resolve].picks = @ + 1]
         IN IF w.eng.options.onPick = "throws" THEN Throw(w1, "CallbackError") ELSE w1
    ELSE w

\* lines 349-355: the position of the fallback path, with the cached scale
fallbackPosition(w, e) ==
    IF w.eng.currentPosition # None
    THEN The(w.eng.currentPosition)
    ELSE LET rect == Rect(w.eng.canvas)
             cc == The(w.eng.canvasCache)
         IN [x |-> FloorDiv((e.clientX - rect.left) * cc.scaleX[1], cc.scaleX[2]),
             y |-> FloorDiv((e.clientY - rect.top) * cc.scaleY[1], cc.scaleY[2])]

MutOnClick_Resample(w, e) ==
    LET rect == Rect(w.eng.canvas)
        x == e.clientX - rect.left
        y == e.clientY - rect.top
        ctx == The(w.eng.canvasCache).ctx
        w1 == Log(w, [ev |-> "getImageData", x |-> x, y |-> y])
    IN
    IF ~CanRead(w, ctx)
    THEN Throw(w1, "SecurityError")
    ELSE
    LET rgb == PixelData(ctx, x, y)
        hex == rgbToHex(rgb[1], rgb[2], rgb[3])
        w2 == callOnPick(w1, [hex |-> hex, rgb |-> rgb, x |-> x, y |-> y, event |-> e])
    IN IF Threw(w2) THEN w2
       ELSE removeUI(resolve(w2, [hex |-> hex, rgb |-> rgb]))

MutOnClick_ResolveFirst(w, e) ==
    IF w.eng.lastPixel # None
    THEN
        LET lp == The(w.eng.lastPixel)
            w1 == resolve(w, [hex |-> lp.hex, rgb |-> lp.rgb])
            w2 == callOnPick(w1, [hex |-> lp.hex, rgb |-> lp.rgb, x |-> lp.x, y |-> lp.y, event |-> e])
        IN IF Threw(w2) THEN w2 ELSE removeUI(w2)
    ELSE
        IF w.eng.canvasCache = None
        THEN Throw(w, "TypeError")
        ELSE
        LET position == fallbackPosition(w, e)
            ctx == The(w.eng.canvasCache).ctx
            w1 == Log(w, [ev |-> "getImageData", x |-> position.x, y |-> position.y])
        IN
        IF ~CanRead(w, ctx)
        THEN Throw(w1, "SecurityError")
        ELSE
        LET rgb == PixelData(ctx, position.x, position.y)
            hex == rgbToHex(rgb[1], rgb[2], rgb[3])
            w2 == resolve(w1, [hex |-> hex, rgb |-> rgb])
            w3 == callOnPick(w2, [hex |-> hex, rgb |-> rgb,
                                  x |-> position.x, y |-> position.y, event |-> e])
        IN IF Threw(w3) THEN w3 ELSE removeUI(w3)

\* lines 339-369
onClick(w, e) ==
    IF w.eng.lastPixel # None
    THEN
        LET lp == The(w.eng.lastPixel)
            w1 == callOnPick(w, [hex |-> lp.hex, rgb |-> lp.rgb, x |-> lp.x, y |-> lp.y, event |-> e])
        IN IF Threw(w1) THEN w1
           ELSE removeUI(resolve(w1, [hex |-> lp.hex, rgb |-> lp.rgb]))
    ELSE
        IF w.eng.canvasCache = None
        THEN Throw(w, "TypeError")
        ELSE
        LET position == fallbackPosition(w, e)
            ctx == The(w.eng.canvasCache).ctx
            w1 == Log(w, [ev |-> "getImageData", x |-> position.x, y |-> position.y])
        IN
        IF ~CanRead(w, ctx)
        THEN Throw(w1, "SecurityError")
        ELSE
        LET rgb == PixelData(ctx, position.x, position.y)
            hex == rgbToHex(rgb[1], rgb[2], rgb[3])
            w2 == callOnPick(w1, [hex |-> hex, rgb |-> rgb, x |-> position.x, y |-> position.y, event |-> e])
        IN IF Threw(w2) THEN w2
           ELSE removeUI(resolve(w2, [hex |-> hex, rgb |-> rgb]))

-----------------------------------------------------------------------------
(* openFromImageUrl *)

\* lines 545-620: the overlay element; the keyframes style is added once
createLoadingOverlay(w) == [w EXCEPT !.dom.head = @ \cup {StyleNode}]

NewUrlCall(w) == CHOOSE k \in 1..MaxUrlCalls :
                    /\ w.url[k].state = "unused"
                    /\ \A j \in 1..(k - 1) : w.url[j].state # "unused"
CanCallUrl(w) == \E k \in 1..MaxUrlCalls : w.url[k].state = "unused"

\* lines 455-474 and 533: up to the start of the image load
openFromImageUrl(w, options) ==
    IF ~w.browser
    THEN [Throw(w, "NotBrowser") EXCEPT !.hist.outcome = "thrown"]
    ELSE
        LET k == NewUrlCall(w)
            w1 == createLoadingOverlay(w)
        IN [w1 EXCEPT !.dom.body = @ \cup {LoadingNode(k)},
                      !.url[k].state = "loading",
                      !.url[k].options = options,
                      !.hist.outcome = "promise"]

\* lines 476-523: img.onload.  The canvas is a new 2D canvas, so the call
\* of open() inside the try block returns a pending promise.
imgOnLoad(w, k) ==
    LET w1 == [w EXCEPT !.dom.body = (@ \ {LoadingNode(k)}) \cup {TempCanvas(k)}]
        w2 == open(w1, Target("canvas", TempCanvas(k)), w.url[k].options)
    IN [w2 EXCEPT !.url[k].state = "picking",
                  !.url[k].session = w2.eng.resolve]

MutImgOnError_KeepOverlay(w, k) ==
    [w EXCEPT !.url[k].state = "rejected",
              !.url[k].error = "LoadError"]

\* lines 525-531: img.onerror
imgOnError(w, k) ==
    [w EXCEPT !.dom.body = @ \ {LoadingNode(k)},
              !.url[k].state = "rejected",
              !.url[k].error = "LoadError"]

\* lines 508-514: the reactions on the promise of open(), run as microtasks
\* at the end of the task that settled it
thenCleanup(w, k) ==
    LET p == w.url[k].session IN
    IF w.url[k].state = "picking" /\ w.prom[p].state = "fulfilled"
    THEN [w EXCEPT !.dom.body = @ \ {TempCanvas(k)},
                   !.url[k].state = "resolved"]
    ELSE IF w.url[k].state = "picking" /\ w.prom[p].state = "rejected"
    THEN [w EXCEPT !.url[k].state = "rejected",
                   !.url[k].error = "OpenError"]
    ELSE w

RECURSIVE Microtasks(_, _)
Microtasks(w, k) ==
    IF k > MaxUrlCalls THEN w ELSE Microtasks(thenCleanup(w, k), k + 1)

-----------------------------------------------------------------------------
(* The browser: event dispatch and animation frames *)

Handle(w, t, e) ==
    CASE t = "mousemove" -> throttledMouseMove(w, e)
      [] t = "mouseleave" -> onMouseLeave(w)
      [] t = "mouseenter" -> onMouseEnter(w, e)
      [] t = "click" -> onClick(w, e)

\* the listeners registered when the dispatch starts run in order of
\* registration; one removed meanwhile is skipped; an exception of one is
\* reported and does not stop the others
RECURSIVE InvokeAll(_, _, _, _, _)
InvokeAll(w, c, t, e, todo) ==
    IF todo = {} THEN w
    ELSE LET h == CHOOSE n \in todo : \A m \in todo : n <= m
             w1 == IF h \in w.dom.listeners[c][t] THEN Handle(w, t, e) ELSE w
         IN InvokeAll(w1, c, t, e, todo \ {h})

Dispatch(w, c, t, e) == Microtasks(InvokeAll(w, c, t, e, w.dom.listeners[c][t]), 1)

\* one animation frame: every pending callback runs, in order (lines 242-245)
frameCallback(w, e) ==
    LET w1 == onMouseMove(Caught(w), e) IN
    IF Threw(w1) THEN w1 ELSE [w1 EXCEPT !.eng.mouseThrottle = FALSE]

RECURSIVE RunFrame(_, _)
RunFrame(w, callbacks) ==
    IF callbacks = <<>> THEN w
    ELSE RunFrame(frameCallback(w, Head(callbacks)), Tail(callbacks))

-----------------------------------------------------------------------------
(* Actions: one browser task each *)

OpenOn(targets) ==
    /\ CanOpen(World)
    /\ \E target \in targets, options \in CallOptions :
          Commit(Microtasks(open(Begin(World, "open"), target, options), 1))

Open == OpenOn(Targets)

OpenFromImageUrl ==
    /\ CanCallUrl(World)
    /\ \E options \in CallOptions :
          Commit(openFromImageUrl(Begin(World, "openFromImageUrl"), options))

ImgLoad ==
    \E k \in 1..MaxUrlCalls :
        /\ url[k].state = "loading"
        /\ CanOpen(World)
        /\ Commit(Microtasks(imgOnLoad(Begin(World, "imgload"), k), 1))

ImgError ==
    \E k \in 1..MaxUrlCalls :
        /\ url[k].state = "loading"
        /\ Commit(imgOnError(Begin(World, "imgerror"), k))

MouseEnter ==
    \E c \in Canvases2d :
        /\ dom.listeners[c]["mouseenter"] # {}
        /\ LET e == CHOOSE ev \in PointerEvents(c) : TRUE IN
              Commit(Dispatch(Begin(World, "mouseenter"), c, "mouseenter", e))

MouseMove ==
    \E c \in Canvases2d :
        /\ dom.listeners[c]["mousemove"] # {}
        /\ \E e \in PointerEvents(c) :
              Commit(Dispatch(Begin(World, "mousemove"), c, "mousemove", e))

MouseLeave ==
    \E c \in Canvases2d :
        /\ dom.listeners[c]["mouseleave"] # {}
        /\ LET e == CHOOSE ev \in PointerEvents(c) : TRUE IN
              Commit(Dispatch(Begin(World, "mouseleave"), c, "mouseleave", e))

Click ==
    \E c \in Canvases2d :
        /\ dom.listeners[c]["click"] # {}
        /\ prom[eng.resolve].picks < MaxPickCalls
        /\ \E e \in PointerEvents(c) :
              Commit(Dispatch(Begin(World, "click"), c, "click", e))

Frame ==
    /\ raf # <<>>
    /\ Commit(RunFrame([Begin(World, "frame") EXCEPT !.raf = <<>>], raf))

\* the page draws something onto its canvas that makes it unreadable
TaintableCanvases == {CanvasA}

Taint ==
    \E c \in TaintableCanvases :
        /\ readable[c]
        /\ Commit([Begin(World, "taint") EXCEPT !.readable[c] = FALSE])

\* the page assigns properties of the engine's public options object, or of
\* an option object it shares with the engine
AssignedOptions == { [magnifier |-> [size |-> 1, zoom |-> 3]], [onPick |-> "fn"] }

SetOptions ==
    \E m \in AssignedOptions :
        /\ eng.options # Spread(eng.options, m)
        /\ Commit([Begin(World, "setOptions") EXCEPT !.eng.options = Spread(@, m)])

Next ==
    \/ Open
    \/ MouseEnter
    \/ MouseMove
    \/ MouseLeave
    \/ Click
    \/ Frame
    \/ Taint

Spec == Init /\ [][Next]_vars

-----------------------------------------------------------------------------
(* The openFromImageUrl flow: the same engine, with image loads, and with    *)
(* direct open() calls on one page canvas or on an invalid target            *)

UrlSideTargets == {Target("canvas", CanvasA), InvalidTarget}

OpenBeside == OpenOn(UrlSideTargets)

NextUrl ==
    \/ OpenBeside
    \/ OpenFromImageUrl
    \/ ImgLoad
    \/ ImgError
    \/ MouseEnter
    \/ MouseMove
    \/ MouseLeave
    \/ Click
    \/ Frame

SpecUrl == Init /\ [][NextUrl]_vars

-----------------------------------------------------------------------------
(* Sessions on one canvas whose options the page changes while they run      *)

ConfigTargets == {Target("canvas", CanvasA)}

OpenPlain == OpenOn(ConfigTargets)

NextConfig ==
    \/ OpenPlain
    \/ SetOptions
    \/ MouseEnter
    \/ MouseMove
    \/ MouseLeave
    \/ Click
    \/ Frame

SpecConfig == Init /\ [][NextConfig]_vars

-----------------------------------------------------------------------------
(* _rgbToHex called on its own, on colour channels as getImageData gives    *)
(* them: bytes of a Uint8ClampedArray                                        *)

MaxChannel == 255

\* one channel over its whole range, the other two over the values where the
\* number of hexadecimal digits changes
EdgeChannels == {0, 1, 15, 16, MaxChannel}
Channels == 0..MaxChannel
HexInputs ==
    (Channels \X EdgeChannels \X EdgeChannels)
        \cup (EdgeChannels \X Channels \X EdgeChannels)
        \cup (EdgeChannels \X EdgeChannels \X Channels)

InitHex ==
    /\ Constructed
    /\ browser
    /\ eng.options = EmptyObj
    /\ call \in {[fn |-> "rgbToHex", args |-> t, result |-> None] : t \in HexInputs}

RgbToHex ==
    /\ call.fn = "rgbToHex"
    /\ call.result = None
    /\ call' = [call EXCEPT !.result = Some(rgbToHex(call.args[1], call.args[2], call.args[3]))]
    /\ UNCHANGED <<eng, dom, raf, prom, url, hist, readable, browser>>

NextHex == RgbToHex

SpecHex == InitHex /\ [][NextHex]_vars

-----------------------------------------------------------------------------
(* drawImageToCanvas called on its own *)

MaxNatural == 11

\* an image not given, not loaded yet (a natural size of 0) or loaded
Images ==
    {None} \cup {Some([naturalWidth |-> iw, naturalHeight |-> ih]) :
                    iw \in 0..MaxNatural, ih \in 0..MaxNatural}
CanvasSizes == {1, 2, 15, 16}
DrawCanvases ==
    {Some([width |-> cw, height |-> ch]) : cw \in CanvasSizes, ch \in CanvasSizes}
DrawOptions == { EmptyObj, [cover |-> TRUE] }

InitDraw ==
    /\ Constructed
    /\ browser
    /\ eng.options = EmptyObj
    /\ call \in {[fn |-> "drawImageToCanvas", args |-> a, result |-> None] :
                    a \in [img : Images, canvas : DrawCanvases, options : DrawOptions]}

DrawImageToCanvas ==
    /\ call.fn = "drawImageToCanvas"
    /\ call.result = None
    /\ call' = [call EXCEPT !.result =
                   Some(drawImageToCanvas(call.args.img, call.args.canvas, call.args.options))]
    /\ UNCHANGED <<eng, dom, raf, prom, url, hist, readable, browser>>

NextDraw == DrawImageToCanvas

SpecDraw == InitDraw /\ [][NextDraw]_vars

-----------------------------------------------------------------------------
(* Observations used by the properties *)

Trace == hist.trace
TraceIdx(name) == {i \in 1..Len(Trace) : Trace[i].ev = name}
TraceHas(name) == TraceIdx(name) # {}
ThrewIn(names) == \E i \in TraceIdx("throw") : Trace[i].name \in names

ContainersInBody == {n \in 1..MaxOpens : ContainerNode(n) \in dom.body}
NoListenerOn(c) == \A t \in EventTypes : dom.listeners[c][t] = {}
NoListenerAnywhere == \A c \in AllCanvases : NoListenerOn(c)
SessionActive == eng.canvas \in Canvases2d /\ eng.container # 0

-----------------------------------------------------------------------------
(* C1: for one session, over any sequence of clicks, onPick is invoked at   *)
(* most once and the promise's resolve function is called at most once.     *)
C1_ExactlyOnce ==
    \A p \in 1..MaxOpens : prom[p].picks <= 1 /\ prom[p].resolves <= 1

(* C2, as claimed: no click handler run performs a pixel read.              *)
C2_NeverResamples ==
    hist.op = "click" => ~TraceHas("getImageData")

(* C2, amended: a click handled while a last sample is stored performs no   *)
(* pixel read and passes exactly that sample's hex and rgb to onPick and to *)
(* resolve; a click handled while none is stored reads the pixel at the     *)
(* scaled click position once and resolves with that pixel's colour.        *)
C2_ClickUsesStoredSample ==
    [][hist'.op = "click" =>
        IF eng.lastPixel # None
        THEN /\ \A i \in 1..Len(hist'.trace) :
                  /\ hist'.trace[i].ev # "getImageData"
                  /\ hist'.trace[i].ev = "onPick" =>
                        /\ hist'.trace[i].arg.hex = The(eng.lastPixel).hex
                        /\ hist'.trace[i].arg.rgb = The(eng.lastPixel).rgb
                  /\ hist'.trace[i].ev = "resolve" =>
                        hist'.trace[i].value =
                            [hex |-> The(eng.lastPixel).hex, rgb |-> The(eng.lastPixel).rgb]
             /\ \/ IsFunction(eng.options, "onPick") /\ eng.options.onPick = "throws"
                \/ Cardinality({i \in 1..Len(hist'.trace) :
                                   hist'.trace[i].ev = "resolve"}) = 1
        ELSE /\ Cardinality({i \in 1..Len(hist'.trace) :
                                hist'.trace[i].ev = "getImageData"}) = 1
             /\ \A i \in 1..Len(hist'.trace) :
                  hist'.trace[i].ev = "resolve" =>
                     \E j \in 1..(i - 1) :
                        /\ hist'.trace[j].ev = "getImageData"
                        /\ hist'.trace[i].value.rgb =
                              PixelData(eng.canvas, hist'.trace[j].x, hist'.trace[j].y)
    ]_vars

\* a click on the lower pixel of CanvasA resolved with the colour of the
\* upper pixel, sampled earlier, and read nothing
C2_Witness ==
    /\ hist.op = "click"
    /\ ~TraceHas("getImageData")
    /\ \E i \in TraceIdx("onPick") :
          /\ Trace[i].arg.rgb = <<255, 0, 0>>
          /\ Trace[i].arg.event = [clientX |-> 0, clientY |-> 2]
    /\ TraceHas("resolve")

(* C3: after a pointer-move is handled, the pending frame callback carries  *)
(* the coordinates of that (latest) event.                                  *)
C3_PendingIsLatest ==
    (hist.op = "mousemove" /\ raf # <<>>) =>
        \A i \in TraceIdx("mousemove") : raf[Len(raf)] = Trace[i].event

(* C4: after open() calls without an intervening click, one container is    *)
(* attached, listeners are registered only on the canvas of the latest      *)
(* open, one handler per event type, and a click invokes onPick once.       *)
C4_SingleSession ==
    /\ Cardinality(ContainersInBody) <= 1
    /\ \A c \in AllCanvases, t \in EventTypes :
          /\ Cardinality(dom.listeners[c][t]) <= 1
          /\ dom.listeners[c][t] # {} => c = eng.canvas
    /\ (hist.op = "open" /\ ~TraceHas("throw")) =>
          /\ ContainersInBody = {eng.resolve}
          /\ \A t \in EventTypes : dom.listeners[eng.canvas][t] = {eng.resolve}
    /\ hist.op = "click" =>
          /\ Cardinality(TraceIdx("onPick")) <= 1
          /\ (IsFunction(eng.options, "onPick") /\ ~ThrewIn({"SecurityError", "TypeError"}))
                => Cardinality(TraceIdx("onPick")) = 1

\* a click in the second session while the first one was never resolved
C4_Witness ==
    /\ hist.op = "click"
    /\ eng.resolve = 2
    /\ prom[1].state = "pending"
    /\ prom[2].picks = 1
    /\ prom[2].state = "fulfilled"

C6_SynchronousValidation ==
    (hist.op = "open" /\ ThrewIn({"InvalidTarget", "NotBrowser"})) =>
        /\ hist.outcome = "thrown"
        /\ ContainersInBody = {}
        /\ NoListenerAnywhere

(* C7: after an error in a click handler or in a frame callback, the        *)
(* container is detached, the listeners are removed and the promise of the  *)
(* session is settled.                                                      *)
C7_ErrorTearsDown ==
    (hist.op \in {"click", "frame"} /\ TraceHas("throw")) =>
        /\ ContainersInBody = {}
        /\ NoListenerAnywhere
        /\ eng.resolve # 0 => prom[eng.resolve].state # "pending"

(* C8: when a frame has run its callbacks the throttle flag is clear, also  *)
(* when a pixel read threw, so that the next pointer-move is accepted.      *)
C8_FrameClearsThrottle ==
    hist.op = "frame" => ~eng.mouseThrottle

(* C9: when the image of an openFromImageUrl call fails to load, the call's *)
(* promise is rejected with a load error, its loading overlay is detached,  *)
(* and no temporary canvas and no pick session were created for it.         *)
C9_LoadFailureClean ==
    /\ hist.op = "imgerror" =>
          \E k \in 1..MaxUrlCalls : url[k].state = "rejected" /\ url[k].error = "LoadError"
    /\ \A k \in 1..MaxUrlCalls :
          (url[k].state = "rejected" /\ url[k].error = "LoadError") =>
              /\ LoadingNode(k) \notin dom.body
              /\ TempCanvas(k) \notin dom.body
              /\ url[k].session = 0
              /\ NoListenerOn(TempCanvas(k))

\* a load failed while a session opened directly is active
C9_Witness ==
    /\ hist.op = "imgerror"
    /\ url[1].state = "rejected"
    /\ url[1].error = "LoadError"
    /\ SessionActive

(* C10: whenever the pick session that openFromImageUrl delegated to is     *)
(* over (resolved, rejected or torn down by a later open), the temporary    *)
(* canvas is no longer in the document.                                     *)
C10_TempCanvasRemoved ==
    \A k \in 1..MaxUrlCalls :
        TempCanvas(k) \in dom.body =>
            /\ url[k].state = "picking"
            /\ eng.canvas = TempCanvas(k)
            /\ eng.resolve = url[k].session

-----------------------------------------------------------------------------
(* C11: every option value a session uses (magnifier size and zoom, onPick, *)
(* renderPreview) is the value in effect when open() was called, also when  *)
(* the options are changed between open() and the first render or click.    *)
SessionOptions == prom[eng.resolve].options

C11_ConfigSnapshot ==
    eng.resolve # 0 =>
        /\ (SessionActive /\ eng.magnifierCache # None) =>
              The(eng.magnifierCache) = magnifierSettings(SessionOptions)
        /\ hist.op = "click" =>
              \A i \in TraceIdx("onPick") :
                  IsFunction(SessionOptions, "onPick") /\ Trace[i].fn = SessionOptions.onPick
        /\ (hist.op = "click" /\ TraceHas("resolve")) =>
              (IsFunction(SessionOptions, "onPick") => TraceHas("onPick"))

-----------------------------------------------------------------------------
(* C12: with an onMove function configured, every processed pointer-move    *)
(* (every sample accepted in a frame) invokes onMove once with that sample. *)
AcceptedSamples == TraceIdx("drawMagnifier")

C12_OnMoveEverySample ==
    (hist.op = "frame" /\ IsFunction(eng.options, "onMove")) =>
        /\ Cardinality(TraceIdx("onMove")) = Cardinality(AcceptedSamples)
        /\ \A i \in TraceIdx("onMove") :
              \E j \in AcceptedSamples :
                  j < i /\ Trace[i].arg.x = Trace[j].x /\ Trace[i].arg.y = Trace[j].y

-----------------------------------------------------------------------------
(* C13: with a renderPreview function configured, every processed           *)
(* pointer-move calls it with that sample and mounts what it returns as the *)
(* preview content.                                                         *)
C13_RenderPreviewEverySample ==
    (hist.op = "frame" /\ IsFunction(eng.options, "renderPreview")
                       /\ AcceptedSamples # {} /\ eng.lastPixel # None) =>
        /\ Cardinality(TraceIdx("renderPreview")) = Cardinality(AcceptedSamples)
        /\ dom.overlay.previewContent # None
        /\ The(dom.overlay.previewContent).kind = "custom"
        /\ The(dom.overlay.previewContent).sample = The(eng.lastPixel)

-----------------------------------------------------------------------------
(* C14: for r, g, b in 0..255, _rgbToHex(r, g, b) is "#" followed by the    *)
(* two-digit lowercase hexadecimal forms of r, g and b in that order (7      *)
(* characters), and parsing the three digit pairs gives back (r, g, b).      *)
Pad2(v) == <<HexDigits[(v \div 16) + 1], HexDigits[(v % 16) + 1]>>
DigitValue(c) == CHOOSE d \in 0..15 : HexDigits[d + 1] = c
ParsePair(h, i) == 16 * DigitValue(h[i]) + DigitValue(h[i + 1])

C14_HexRoundTrip ==
    (call.fn = "rgbToHex" /\ call.result # None) =>
        LET h == The(call.result)
            r == call.args[1]
            g == call.args[2]
            b == call.args[3]
        IN /\ Len(h) = 7
           /\ h = <<"#">> \o Pad2(r) \o Pad2(g) \o Pad2(b)
           /\ \A i \in 2..7 : \E d \in 1..16 : HexDigits[d] = h[i]
           /\ <<ParsePair(h, 2), ParsePair(h, 4), ParsePair(h, 6)>> = <<r, g, b>>

\* a converted colour whose channels need a leading zero
C14_Witness ==
    /\ call.fn = "rgbToHex"
    /\ call.args = <<0, 15, 255>>
    /\ call.result = Some(<<"#", "0", "0", "0", "f", "f", "f">>)

-----------------------------------------------------------------------------
(* C15: the buffer coordinates of every processed pointer-move are          *)
(* floor((clientX - rect.left) * canvas.width / rect.width) and             *)
(* floor((clientY - rect.top) * canvas.height / rect.height), whatever the  *)
(* size of the on-screen rect.                                              *)
C15_ScaledMapping ==
    (eng.lastPixel # None /\ eng.canvas \in Canvases2d) =>
        LET lp == The(eng.lastPixel)
            rect == Rect(eng.canvas)
        IN /\ lp.x = FloorDiv((lp.clientX - rect.left) * CanvasWidth(eng.canvas), rect.width)
           /\ lp.y = FloorDiv((lp.clientY - rect.top) * CanvasHeight(eng.canvas), rect.height)

-----------------------------------------------------------------------------
(* C16: a read outside [0,width) x [0,height) gives an error and no colour, *)
(* so the last accepted sample always has buffer coordinates inside the     *)
(* canvas buffer.                                                           *)
C16_InRangeSamples ==
    (eng.lastPixel # None /\ eng.canvas \in Canvases2d) =>
        InBuffer(eng.canvas, The(eng.lastPixel).x, The(eng.lastPixel).y)

-----------------------------------------------------------------------------
(* C17: drawImageToCanvas scales by the max of the two ratios with cover    *)
(* (the drawn rectangle is at least as wide and as tall as the canvas) and  *)
(* by the min without (no wider and no taller), centres the rectangle       *)
(* (dx = (canvasW - dw) / 2, dy = (canvasH - dh) / 2), and neither clears    *)
(* nor draws when the image has a natural width or height of 0.             *)
\* b - 1, for b with a digit set
Dec(b) ==
    LET k == CHOOSE i \in 1..Len(b) : b[i] = 1 /\ \A j \in (i + 1)..Len(b) : b[j] = 0
    IN [i \in 1..Len(b) |-> IF i < k THEN b[i] ELSE IF i = k THEN 0 ELSE 1]

\* the neighbours of a double d > 0
Succ(d) ==
    LET inc == Inc(d.m)
    IN IF Len(inc) > MantissaBits
       THEN [d EXCEPT !.m = Front(inc), !.ex = @ + 1]
       ELSE [d EXCEPT !.m = inc]
Pred(d) ==
    IF d.m = <<1>> \o Zeros(MantissaBits - 1)
    THEN [d EXCEPT !.m = [i \in 1..MantissaBits |-> 1], !.ex = @ - 1]
    ELSE [d EXCEPT !.m = Dec(d.m)]

DoubleLessEq(a, b) == ~DoubleLess(b, a)

\* margin is the double next to (c - d) / 2, for an integer c > 0 and a double d > 0
Centred(c, d, margin) ==
    IF FromInt(c) = d THEN margin = DoubleZero
    ELSE
        LET exact == ExactDifference(FromInt(c), d)
            n == IF Len(exact.bits) < MantissaBits THEN Len(exact.bits) ELSE MantissaBits
            below == [sign |-> exact.sign,
                      m |-> SubSeq(exact.bits, 1, n) \o Zeros(MantissaBits - n),
                      ex |-> exact.ex - 1]
        IN IF Len(exact.bits) <= MantissaBits
           THEN margin = below
           ELSE margin \in {below, Succ(below)}

DrawCall == call.fn = "drawImageToCanvas" /\ call.result # None
DrawSkipped ==
    \/ call.args.img = None
    \/ The(call.args.img).naturalWidth = 0
    \/ The(call.args.img).naturalHeight = 0
DrawnRect == The(The(call.result).drawn)
CanvasW == FromInt(The(call.args.canvas).width)
CanvasH == FromInt(The(call.args.canvas).height)

DrawsOrSkips ==
    IF DrawSkipped
    THEN ~The(call.result).cleared /\ The(call.result).drawn = None
    ELSE /\ The(call.result).cleared
         /\ The(call.result).drawn # None
         /\ Centred(The(call.args.canvas).width, DrawnRect.dw, DrawnRect.dx)
         /\ Centred(The(call.args.canvas).height, DrawnRect.dh, DrawnRect.dy)

\* the statement as given: the bounds hold exactly
C17_ExactBounds ==
    DrawCall =>
        /\ DrawsOrSkips
        /\ ~DrawSkipped =>
              IF IsCover(call.args.options)
              THEN DoubleLessEq(CanvasW, DrawnRect.dw) /\ DoubleLessEq(CanvasH, DrawnRect.dh)
              ELSE DoubleLessEq(DrawnRect.dw, CanvasW) /\ DoubleLessEq(DrawnRect.dh, CanvasH)

\* C17, amended: the bounds hold up to one unit in the last place of dw and
\* dh, and one of the two dimensions is the canvas's up to that unit
C17_BoundsUpToRounding ==
    DrawCall =>
        /\ DrawsOrSkips
        /\ ~DrawSkipped =>
              /\ IF IsCover(call.args.options)
                 THEN /\ DoubleLessEq(CanvasW, Succ(DrawnRect.dw))
                      /\ DoubleLessEq(CanvasH, Succ(DrawnRect.dh))
                 ELSE /\ DoubleLessEq(Pred(DrawnRect.dw), CanvasW)
                      /\ DoubleLessEq(Pred(DrawnRect.dh), CanvasH)
              /\ \/ CanvasW \in {Pred(DrawnRect.dw), DrawnRect.dw, Succ(DrawnRect.dw)}
                 \/ CanvasH \in {Pred(DrawnRect.dh), DrawnRect.dh, Succ(DrawnRect.dh)}

\* a cover call whose rectangle came out less tall than the canvas
C17_Witness ==
    /\ DrawCall
    /\ ~DrawSkipped
    /\ IsCover(call.args.options)
    /\ DoubleLess(DrawnRect.dh, CanvasH)
    /\ CanvasH = Succ(DrawnRect.dh)

-----------------------------------------------------------------------------
(* C18: a frame callback that fires after its session was resolved by a     *)
(* click or torn down by a re-entrant open reads no pixel, changes no       *)
(* engine state and raises no error.                                        *)
\* _removeUI clears the throttle flag and a live session sets it when it
\* schedules a callback: while the flag is clear, every pending callback
\* belongs to a session that is over
OnlyStaleCallbacks == raf # <<>> /\ ~eng.mouseThrottle

C18_StaleCallbackNoOp ==
    [][(OnlyStaleCallbacks /\ hist'.op = "frame") =>
           /\ eng' = eng
           /\ dom' = dom
           /\ \A i \in 1..Len(hist'.trace) :
                 hist'.trace[i].ev \notin {"getImageData", "drawMagnifier", "throw"}]_vars

-----------------------------------------------------------------------------
(* C19: in every reachable state at most one animation-frame callback of    *)
(* the engine is pending, so a frame renders the magnifier at most once.    *)
C19_OnePendingCallback ==
    /\ Len(raf) <= 1
    /\ hist.op = "frame" => Cardinality(TraceIdx("drawMagnifier")) <= 1

-----------------------------------------------------------------------------
(* C20: on every exit path (click resolution, re-entrant open) the teardown *)
(* removes the canvas listeners before it detaches the overlay container.   *)
C20_ListenersBeforeDetach ==
    \A i \in TraceIdx("detachContainer") :
        \E j \in TraceIdx("removeListeners") :
            /\ j < i
            /\ \A k \in TraceIdx("detachContainer") : ~(j < k /\ k < i)

-----------------------------------------------------------------------------
(* C21: after the teardown (here: after a click that resolved) no listener  *)
(* is registered, the container is detached, the cursor is restored, every  *)
(* session handle of the engine (canvas, container, magnifier, crosshair,   *)
(* preview, its swatch and text children, caches, last sample) is null, and *)
(* running the teardown again changes nothing and raises nothing.           *)
TornDown == hist.op = "click" /\ TraceHas("resolve")

TeardownLeavesNothingAttached ==
    /\ NoListenerAnywhere
    /\ ContainersInBody = {}
    /\ \A c \in Canvases2d : dom.cursor[c] # "none"

CoreHandlesCleared ==
    /\ eng.canvas = NullCanvas
    /\ eng.container = 0
    /\ eng.magnifier = 0
    /\ eng.crosshair = 0
    /\ eng.preview = 0
    /\ eng.lastPixel = None
    /\ eng.currentPosition = None
    /\ eng.canvasCache = None
    /\ eng.magnifierCache = None
    /\ eng.magCanvas = 0
    /\ eng.magCtx = 0

TeardownIdempotent == removeUI(World) = World

C21_TeardownComplete ==
    TornDown =>
        /\ TeardownLeavesNothingAttached
        /\ CoreHandlesCleared
        /\ eng.previewColor = 0
        /\ eng.colorDisplay = 0
        /\ TeardownIdempotent

-----------------------------------------------------------------------------
(* C22: within one click handler run, onPick (when configured) is invoked   *)
(* before the promise's resolve function, and the overlay and the listeners *)
(* are disposed after resolve, before the handler returns.                  *)
C22_ClickOrder ==
    hist.op = "click" =>
        \A r \in TraceIdx("resolve") :
            /\ \A i \in TraceIdx("onPick") : i < r
            /\ IsFunction(eng.options, "onPick") => TraceHas("onPick")
            /\ \E d \in TraceIdx("detachContainer") : r < d
            /\ \E l \in TraceIdx("removeListeners") : r < l
            /\ NoListenerAnywhere
            /\ ContainersInBody = {}
            /\ ~SessionActive

\* a click that called onPick, resolved and disposed
C22_Witness ==
    /\ hist.op = "click"
    /\ TraceHas("onPick")
    /\ TraceHas("resolve")
    /\ TraceHas("detachContainer")
    /\ TraceHas("removeListeners")

-----------------------------------------------------------------------------
(* C23: for a sample point (x, y) on a surface of width w and height h and  *)
(* a sample size s <= min(w, h), the region drawn into the magnifier starts *)
(* at (clamp(x - s/2, 0, w - s), clamp(y - s/2, 0, h - s)): the whole       *)
(* window lies inside the buffer.  (Positions are compared doubled, s/2     *)
(* need not be whole.)                                                      *)
Clamp(v, lo, hi) == IF v < lo THEN lo ELSE IF v > hi THEN hi ELSE v

MagnifierRendered ==
    /\ SessionActive
    /\ eng.lastPixel # None
    /\ eng.magnifierCache # None
    /\ dom.overlay.drawn # None

C23_WindowClamped ==
    (/\ MagnifierRendered
     /\ The(eng.magnifierCache).size <= CanvasWidth(eng.canvas)
     /\ The(eng.magnifierCache).size <= CanvasHeight(eng.canvas)) =>
        LET s == The(eng.magnifierCache).size
            lp == The(eng.lastPixel)
            region == The(dom.overlay.drawn)
        IN /\ region.sx2 = Clamp(2 * lp.x - s, 0, 2 * (CanvasWidth(eng.canvas) - s))
           /\ region.sy2 = Clamp(2 * lp.y - s, 0, 2 * (CanvasHeight(eng.canvas) - s))
           /\ 0 <= region.sx2 /\ region.sx2 + 2 * region.sw <= 2 * CanvasWidth(eng.canvas)
           /\ 0 <= region.sy2 /\ region.sy2 + 2 * region.sh <= 2 * CanvasHeight(eng.canvas)

-----------------------------------------------------------------------------
(* C24: handling pointer-enter in an active session hides the canvas cursor,*)
(* shows magnifier and preview, and renders the magnifier a first time, so  *)
(* that the magnifier has content before any pointer-move.                  *)
C24_EnterRenders ==
    (hist.op = "mouseenter" /\ SessionActive) =>
        /\ dom.cursor[eng.canvas] = "none"
        /\ dom.overlay.magnifierDisplay = "block"
        /\ dom.overlay.previewDisplay = "flex"
        /\ dom.overlay.drawn # None

-----------------------------------------------------------------------------
(* C25: for every render the magnifier canvas is square with side           *)
(* sampleSize * zoom (20 * 4 = 80 when not configured), the source region   *)
(* has side sampleSize, and image smoothing is off on the drawing context.  *)
C25_MagnifierSize ==
    (SessionActive /\ dom.overlay.drawn # None) =>
        /\ eng.magnifierCache # None
        /\ LET mc == The(eng.magnifierCache)
               region == The(dom.overlay.drawn)
               side == mc.size * mc.zoom
           IN /\ dom.overlay.magCanvasSize = Some([width |-> side, height |-> side])
              /\ region.sw = mc.size /\ region.sh = mc.size
              /\ region.dw = side /\ region.dh = side
              /\ dom.overlay.smoothing = Some(FALSE)
              /\ ~Has(eng.options, "magnifier") =>
                    mc = [size |-> 20, zoom |-> 4] /\ side = 80
              /\ Has(SessionOptions, "magnifier") =>
                    /\ mc.size = SessionOptions.magnifier.size
                    /\ mc.zoom = SessionOptions.magnifier.zoom

\* a render with the default size and zoom
C25_Witness ==
    /\ SessionActive
    /\ ~Has(eng.options, "magnifier")
    /\ dom.overlay.drawn # None
    /\ dom.overlay.magCanvasSize = Some([width |-> 80, height |-> 80])

-----------------------------------------------------------------------------
(* C26: in every state of an active session with a last sample, the swatch  *)
(* colour and the hex text mounted in the preview element are the rgb and   *)
(* hex of that sample, also after pointer-leave, pointer-enter and further  *)
(* processed pointer-moves.                                                 *)
\* what the preview element shows: its swatch and text children, or the
\* markup that replaced them
MountedPreview ==
    LET content == The(dom.overlay.previewContent) IN
    IF content.kind = "children"
    THEN [hex |-> dom.overlay.text, swatch |-> dom.overlay.swatch]
    ELSE [hex |-> Some(content.sample.hex), swatch |-> Some(content.sample.rgb)]

C26_PreviewShowsLastSample ==
    (SessionActive /\ eng.lastPixel # None /\ dom.overlay.previewContent # None) =>
        /\ MountedPreview.hex = Some(The(eng.lastPixel).hex)
        /\ MountedPreview.swatch = Some(The(eng.lastPixel).rgb)

-----------------------------------------------------------------------------
(* C27: when open() is called while an earlier session is unresolved, the   *)
(* earlier session's promise is settled, so that only the promise of the    *)
(* latest open() can be pending; a click settles that promise only.         *)
C27_ReentrySettlesEarlier ==
    /\ \A p \in 1..MaxOpens : prom[p].state = "pending" => p = eng.resolve
    /\ hist.op = "click" =>
          \A i \in TraceIdx("resolve") : Trace[i].promise = eng.resolve

-----------------------------------------------------------------------------
(* C28: a frame callback scheduled by a previous session's pointer-move     *)
(* never writes the new session's last sample: the slot stays empty until a *)
(* pointer-move delivered to the new session has been processed.            *)
C28_NoStaleSample ==
    [][(OnlyStaleCallbacks /\ eng.lastPixel = None /\ hist'.op = "frame") =>
           eng'.lastPixel = None]_vars

-----------------------------------------------------------------------------
(* C29: an open() that fails because its target is invalid leaves an active *)
(* session as it was: overlay, listeners, last sample, resolve function and *)
(* the stored options are unchanged.                                        *)
RejectedForTarget(h) ==
    /\ h.op = "open"
    /\ \E i \in 1..Len(h.trace) :
          h.trace[i].ev = "throw" /\ h.trace[i].name = "InvalidTarget"

C29_RejectedOpenNoChange ==
    [][(SessionActive /\ RejectedForTarget(hist')) =>
           /\ eng'.options = eng.options
           /\ eng'.resolve = eng.resolve
           /\ eng'.canvas = eng.canvas
           /\ eng'.container = eng.container
           /\ eng'.lastPixel = eng.lastPixel
           /\ dom'.body = dom.body
           /\ dom'.listeners = dom.listeners]_vars

-----------------------------------------------------------------------------
(* C30: the options given to one open() call hold for that session only: in *)
(* a later open() call that gives no overrides the effective options are    *)
(* the constructor options.                                                 *)
C30_OptionsDoNotLeak ==
    (hist.op = "open" /\ \E i \in TraceIdx("open") : Trace[i].options = EmptyObj) =>
        eng.options \in ConstructorOptions

-----------------------------------------------------------------------------
(* C31: the cursor is hidden only during an active session: in every        *)
(* reachable state, a canvas on which the engine has no active session (the *)
(* engine's canvas handle is not that canvas: never opened, resolved by a   *)
(* click, or left by a later open) does not have the cursor 'none'.         *)
NoSessionOn(c) == eng.canvas # c

C31_CursorHiddenOnlyInSession ==
    \A c \in AllCanvases \ {NullCanvas} : NoSessionOn(c) => dom.cursor[c] # "none"

\* a click resolved the session, or a later open moved to the other canvas,
\* and the canvas that was left has its cursor restored
C31_Witness ==
    \/ /\ hist.op = "click"
       /\ TraceHas("resolve")
       /\ TraceHas("removeListeners")
       /\ eng.canvas = NullCanvas
       /\ \E c \in UserCanvases : dom.cursor[c] = "default"
    \/ /\ hist.op = "open"
       /\ TraceHas("removeListeners")
       /\ eng.canvas = CanvasB
       /\ dom.cursor[CanvasA] = "default"

-----------------------------------------------------------------------------
(* C32: one sampling path: whenever a click is handled while no sample is   *)
(* stored (the fallback of the click handler reads a pixel), the buffer     *)
(* coordinates it reads are the buffer coordinates the pointer-move path    *)
(* computes for the same pointer position on the same canvas.               *)
ReadsOf(h) ==
    {<<h.trace[i].x, h.trace[i].y>> :
        i \in {j \in 1..Len(h.trace) : h.trace[j].ev = "getImageData"}}

C32_OneSamplingPath ==
    [][\A e \in PointerEvents(eng.canvas) :
          ( /\ eng.canvas \in Canvases2d
            /\ eng.lastPixel = None
            /\ Commit(Dispatch(Begin(World, "click"), eng.canvas, "click", e))
            /\ ReadsOf(hist') # {} )
          => ReadsOf(hist') = ReadsOf(onMouseMove(Begin(World, "mousemove"), e).hist)
      ]_vars

====
